---- MODULE Spec2Model ----
(***************************************************************************)
(* Model of the copyrightish-exa-search tool handler (src/src/index.ts),   *)
(* the LedgerService (src/README.md, lines 119-264), the ExaClient         *)
(* (src/unnamed/part_000) and the Licensed Fetch Engine (licensedFetchText,*)
(* whose file is not among the sources: modelled from spec.md section 4.3).*)
(*                                                                         *)
(* One tool invocation is in progress at a time; invocations follow each   *)
(* other and share the process-lifetime license cache and the clock.       *)
(* Spec is the handler with the content fetch, for the default setting of  *)
(* the license cache (off); SpecLedger is the license lookups with any     *)
(* setting of the cache, over time, for requests without content fetch.    *)
(* SpecShutdown adds the termination signals of index.ts:69-80 to requests *)
(* without content fetch, with the fairness of the event loop.             *)
(* SpecRecords is the lookups against a ledger whose records are fixed.    *)
(***************************************************************************)
EXTENDS Integers, Sequences, FiniteSets, TLC

(***************************************************************************)
(* Bounds of the model.                                                    *)
(***************************************************************************)
MaxResults == 2
MaxTime == 2
CacheTTL == 2
MaxSignals == 2
MaxRecords == 2

Absent == "absent"

Urls == {"u1", "u2"}
\* the upstream search may return a result whose url is empty
ResultUrls == Urls \cup {""}

RECURSIVE SeqsUpTo(_, _)
SeqsUpTo(S, n) ==
    IF n = 0 THEN {<<>>}
    ELSE LET shorter == SeqsUpTo(S, n - 1)
         IN  shorter \cup {Append(s, x) : s \in {t \in shorter : Len(t) = n - 1}, x \in S}

ResultLists == SeqsUpTo(ResultUrls, MaxResults)

Range(s) == {s[i] : i \in DOMAIN s}

(***************************************************************************)
(* Ledger license-lookup endpoint: what GET /api/v1/licenses/ can do.      *)
(* response.data is an array of records, a single record, or an array that *)
(* holds null; or the call throws (timeout, non-2xx).                      *)
(***************************************************************************)
NullRecord == [license_type |-> "null", opt_in_status |-> "null", id |-> 0]

\* what licenseArray[0] is for an empty array
UndefinedRecord == [license_type |-> "undefined", opt_in_status |-> "undefined", id |-> 0]

LicenseRecord(t, o, i) == [license_type |-> t, opt_in_status |-> o, id |-> i]

LookupData ==
    { [kind |-> "array", data |-> <<>>],
      [kind |-> "array", data |-> <<LicenseRecord("web", "opt-out", 1),
                                    LicenseRecord("ai-license", "opt-in", 2)>>],
      [kind |-> "array", data |-> <<LicenseRecord("web", "opt-out", 1)>>],
      [kind |-> "object", data |-> <<LicenseRecord("ai-license", "pending", 3)>>],
      [kind |-> "array", data |-> <<NullRecord>>] }

LookupErrors == {"timeout of 5000ms exceeded", "Request failed with status code 500"}

LookupOutcomes ==
    {[ok |-> TRUE, body |-> d, message |-> Absent] : d \in LookupData}
    \cup {[ok |-> FALSE, body |-> [kind |-> "array", data |-> <<>>], message |-> m] :
            m \in LookupErrors}

\* the lookup outcomes tried where the content fetch is in play: one answer with
\* records, one unreadable answer, one timeout
LookupOutcomesBrief ==
    {o \in LookupOutcomes :
        \/ ~o.ok /\ o.message = "timeout of 5000ms exceeded"
        \/ o.ok /\ o.body.data = <<NullRecord>>
        \/ o.ok /\ Len(o.body.data) = 2}

\* The record lists of a ledger whose records are fixed: up to MaxRecords records, each
\* of a license type and an opt-in status, the id of a record being its place in the list;
\* or one record that is not wrapped in an array
LicenseTypes == {"ai-license", "web"}
OptInStatuses == {"opt-in", "opt-out", "pending"}

RecordLists ==
    UNION {[1..n -> LicenseTypes \X OptInStatuses] : n \in 0..MaxRecords}

recordsOf(f) == [i \in DOMAIN f |-> LicenseRecord(f[i][1], f[i][2], i)]

FixedRecords ==
    {[kind |-> "array", data |-> recordsOf(f)] : f \in RecordLists}
    \cup {[kind |-> "object", data |-> recordsOf(f)] : f \in {g \in RecordLists : Len(g) = 1}}

\* the ledger's records are not fixed: a lookup may end in any of LookupOutcomes
AnyRecords == [kind |-> "any", data |-> <<>>]

\* the lookup outcome when the ledger answers with the records it holds
answered(body) == [ok |-> TRUE, body |-> body, message |-> Absent]

TypeErrorMessage == "Cannot read properties of null (reading 'license_type')"

(***************************************************************************)
(* LedgerService.checkLicense, the part after the response arrived.        *)
(***************************************************************************)
\* const licenseArray = Array.isArray(response.data) ? response.data : [response.data]
licenseArray(body) == body.data

\* mutant: the first record is taken, whatever its type
licenseDataFirst(arr) ==
    IF arr # <<>> THEN arr[1] ELSE UndefinedRecord

\* licenseArray.find(l => l.license_type === "ai-license") || licenseArray[0]
licenseData(arr) ==
    LET ai == {i \in DOMAIN arr : arr[i].license_type = "ai-license"}
    IN  IF ai # {} THEN arr[CHOOSE i \in ai : \A j \in ai : i <= j]
        ELSE IF arr # <<>> THEN arr[1]
        ELSE UndefinedRecord

\* reading l.license_type of a null element throws a TypeError inside the try
findThrows(arr) ==
    \E i \in DOMAIN arr :
        /\ arr[i] = NullRecord
        /\ \A j \in 1..(i - 1) : arr[j].license_type # "ai-license"

actionOf(opt) ==
    IF opt = "opt-in" THEN "allow" ELSE IF opt = "opt-out" THEN "deny" ELSE "unknown"

unknownLicense(url) ==
    [url |-> url, license_found |-> FALSE, action |-> "unknown",
     license_version_id |-> 0, error |-> Absent]

degradedLicense(url, message) ==
    [url |-> url, license_found |-> FALSE, action |-> "unknown",
     license_version_id |-> 0, error |-> message]

licenseFrom(url, rec) ==
    [url |-> url,
     license_found |-> (rec.opt_in_status = "opt-in" \/ rec.opt_in_status = "opt-out"),
     action |-> actionOf(rec.opt_in_status),
     license_version_id |-> rec.id,
     error |-> Absent]

\* the verdict checkLicense returns for a lookup outcome
checkLicenseResult(url, outcome) ==
    IF ~outcome.ok THEN degradedLicense(url, outcome.message)
    ELSE LET arr == licenseArray(outcome.body)
         IN  IF findThrows(arr) THEN degradedLicense(url, TypeErrorMessage)
             ELSE IF licenseData(arr) = UndefinedRecord THEN unknownLicense(url)
             ELSE licenseFrom(url, licenseData(arr))

\* whether the ledger call or the reading of its data throws inside the try block
lookupThrows(outcome) == ~outcome.ok \/ findThrows(licenseArray(outcome.body))

\* mutant: the parsing of the response is outside the try block
checkLicenseRaisesOnParse(outcome) == outcome.ok /\ findThrows(licenseArray(outcome.body))

\* mutant: a rejected ledger call is rethrown by the catch block
checkLicenseRaisesOnError(outcome) == ~outcome.ok

\* whether checkLicense rejects: everything after the cache read is inside try/catch
checkLicenseRaises(outcome) == FALSE

\* whether checkLicense reaches the cache write for this outcome
reachesCacheWrite(outcome) ==
    /\ outcome.ok
    /\ ~findThrows(licenseArray(outcome.body))
    /\ licenseData(licenseArray(outcome.body)) # UndefinedRecord

(***************************************************************************)
(* LedgerService configuration and the process-lifetime state.             *)
(***************************************************************************)
Configs == [apiKey : BOOLEAN, enableTracking : BOOLEAN, enableCache : BOOLEAN]

NoLicense ==
    [url |-> Absent, license_found |-> FALSE, action |-> "unknown",
     license_version_id |-> 0, error |-> Absent]

NoEntry == [license |-> NoLicense, expires |-> 0]

(***************************************************************************)
(* HTTP responses of the publisher sites and of the ledger's acquire and   *)
(* usage-log endpoints.                                                    *)
(***************************************************************************)
HttpResponse(st, scheme, body) ==
    [ok |-> TRUE, status |-> st, scheme |-> scheme, body |-> body, message |-> Absent]

TransportError(message) ==
    [ok |-> FALSE, status |-> 0, scheme |-> Absent, body |-> <<>>, message |-> message]

DirectResponses ==
    { HttpResponse(200, Absent, <<"d", "o", "c">>),
      HttpResponse(200, Absent, <<>>),
      HttpResponse(402, "x402", <<"p", "w">>),
      HttpResponse(402, Absent, <<"p", "w">>),
      TransportError("fetch timeout") }

RetryResponses ==
    { HttpResponse(200, Absent, <<"l">>),
      HttpResponse(402, "x402", <<"p", "w">>),
      TransportError("fetch timeout") }

LicensedUrl(u) == IF u = "u1" THEN "u1?license_token" ELSE "u2?license_token"

AcquireOutcomes(u) ==
    { [ok |-> TRUE, licensed_url |-> LicensedUrl(u), message |-> Absent],
      [ok |-> FALSE, licensed_url |-> Absent, message |-> "Request failed with status code 402"] }

UsageLogOutcomes ==
    { [ok |-> TRUE, message |-> Absent],
      [ok |-> FALSE, message |-> "timeout of 3000ms exceeded"] }

AcquireKeyMessage == "COPYRIGHTSH_LEDGER_API_KEY is required for /api/v1/licenses/acquire"
UsageKeyMessage == "COPYRIGHTSH_LEDGER_API_KEY is required for /api/v1/usage/log"

\* max_chars of the request, on the scale of the bodies above
MaxCharsValues == {2}

(***************************************************************************)
(* Licensed Fetch Engine (licensedFetchText): the result record and the    *)
(* transition rules of spec.md section 4.3.                                *)
(***************************************************************************)
NotFetched ==
    [requested_url |-> Absent, final_url |-> Absent, status |-> 0, content_text |-> <<>>,
     payment_attempted |-> FALSE, payment_required |-> FALSE,
     acquire |-> Absent, error |-> Absent]

Min(a, b) == IF a < b THEN a ELSE b

truncate(body, maxChars) == SubSeq(body, 1, Min(Len(body), maxChars))

\* mutant: any 402 is taken for a payment request, the scheme header is not read
x402SignalledAny402(resp) == resp.ok /\ resp.status = 402

\* a 402 status plus the header naming the payment scheme x402
x402Signalled(resp) == resp.ok /\ resp.status = 402 /\ resp.scheme = "x402"

\* DIRECT_FETCH: the record built from the first response
directResult(u, resp, maxChars) ==
    IF resp.ok
    THEN [requested_url |-> u, final_url |-> u, status |-> resp.status,
          content_text |-> truncate(resp.body, maxChars),
          payment_attempted |-> FALSE, payment_required |-> x402Signalled(resp),
          acquire |-> Absent, error |-> Absent]
    ELSE [requested_url |-> u, final_url |-> u, status |-> 0, content_text |-> <<>>,
          payment_attempted |-> FALSE, payment_required |-> FALSE,
          acquire |-> Absent, error |-> resp.message]

\* ACQUIRING: payment_attempted is set when the acquisition client is called
acquiring(res) == [res EXCEPT !.payment_attempted = TRUE]

\* ACQUIRE_FAILED: the original 402 body and metadata, plus the error
acquireFailedResult(res, message) == [res EXCEPT !.error = message]

\* RETRY_FETCH: the record after the second GET, of the grant's licensed_url
retryResult(res, licensedUrl, resp, maxChars) ==
    IF resp.ok
    THEN [res EXCEPT !.final_url = licensedUrl, !.status = resp.status,
                     !.content_text = truncate(resp.body, maxChars),
                     !.acquire = licensedUrl]
    ELSE [res EXCEPT !.final_url = licensedUrl, !.status = 0, !.content_text = <<>>,
                     !.acquire = licensedUrl, !.error = resp.message]

(***************************************************************************)
(* LedgerService.acquireLicenseToken and logUsage: the credential guard.   *)
(***************************************************************************)
\* mutant: the credential is not checked before the POST
acquireNeverChecksKey(cfg) == FALSE

\* if (!this.config.apiKey) throw new Error(...)
acquireThrowsWithoutKey(cfg) == ~cfg.apiKey

\* mutant: logUsage posts the batch without looking at the key
logUsageNeverChecksKey(cfg) == FALSE

logUsageThrowsWithoutKey(cfg) == ~cfg.apiKey

(***************************************************************************)
(* TokenEstimator.estimate.  encoded is what encoder.encode(text).length   *)
(* gave, or NoEncoder when there is no encoder or encode threw.            *)
(***************************************************************************)
NoEncoder == 0

EncoderResults(text) == {NoEncoder} \cup (1..Len(text))

estimate(text, encoded) ==
    IF text = <<>> THEN 0
    ELSE IF encoded # NoEncoder THEN encoded
    ELSE (Len(text) + 3) \div 4

(***************************************************************************)
(* State.                                                                  *)
(***************************************************************************)
VARIABLES
    config,        \* LedgerService.config (fixed at construction)
    now,           \* Date.now(), in cache-TTL units
    licenseCache,  \* LedgerService.licenseCache: url -> {license, expires}
    pc,            \* where the CallTool handler is
    fault,         \* the error the tool invocation failed with, if any
    args,          \* fetch and max_chars of the request
    results,       \* searchResp.results, as their urls
    urls,          \* results.map(r => r.url).filter(Boolean)
    lookup,        \* per index of urls: its checkLicense call is "inflight" (GET sent),
                   \* "returned" (without a GET), "answered" or "failed" (GET ended);
                   \* "settled" once Promise.all has resolved
    licenseMap,    \* url -> verdict
    idx,           \* position of the for..of loop over urls
    engine,        \* per index of urls: the state of its licensedFetchText call
    pending,       \* the Licensed Fetch Result under construction
    fetchedByUrl,  \* url -> Licensed Fetch Result
    hits,          \* the usage hits collected so far
    batch,         \* the payload handed to ledger.logUsage
    logUsageCalls, \* calls of ledger.logUsage in this request
    usagePosts,    \* POSTs to /api/v1/usage/log in this request
    usageLog,      \* the usage_log field
    response,      \* the response body
    proc,          \* the process: its shutdown handlers (index.ts:72-79) and its exit
    ledgerRecords  \* response.data of GET /api/v1/licenses/, where the ledger's records are fixed

vars == <<config, now, licenseCache, pc, fault, args, results, urls, lookup, licenseMap,
          idx, engine, pending, fetchedByUrl, hits, batch, logUsageCalls, usagePosts,
          usageLog, response, proc, ledgerRecords>>

ledgerVars == <<config, licenseCache>>
licenseVars == <<lookup, licenseMap>>
fetchVars == <<idx, engine, pending, fetchedByUrl, hits>>
usageVars == <<batch, logUsageCalls, usagePosts, usageLog>>

NoUsageLog == [set |-> FALSE, ok |-> FALSE, error |-> Absent, gen_id |-> Absent, hits |-> 0]
\* gen_id and hits are the payload; outcome is how the logUsage call ended
NoBatch == [gen_id |-> Absent, hits |-> <<>>, outcome |-> "none"]
NoResponse == [set |-> FALSE, results |-> <<>>, usage_log |-> NoUsageLog]

\* The record of one licensedFetchText call.  gets: HTTP GETs issued; acquires: calls of
\* the acquisition client; posts: POSTs to /api/v1/licenses/acquire; grant: how the
\* acquisition ended; retry: how the retry GET ended; produced: results returned;
\* first: the first response as received
NoResponseYet ==
    [ok |-> FALSE, status |-> 0, scheme |-> Absent, body |-> <<>>, message |-> "none"]

EngineStart ==
    [st |-> "START", gets |-> 0, acquires |-> 0, posts |-> 0, grant |-> "none",
     retry |-> "none", produced |-> 0, first |-> NoResponseYet]

GenId == "uuid"

\* The process.  st: "running", "exited"; calls: runs of the shutdown handler so far;
\* closing: server.close() calls that have not completed; resumable: shutdown handlers
\* whose await has completed and whose continuation has not run yet; trace: what the
\* shutdown handlers did, in order; code: the exit code
ProcStart ==
    [st |-> "running", calls |-> 0, closing |-> 0, resumable |-> 0, trace |-> <<>>,
     code |-> -1]

\* the state after construction, for a configuration cfg
InitWith(cfg) ==
    /\ config = cfg
    /\ now = 0
    /\ licenseCache = [u \in Urls |-> NoEntry]
    /\ proc = ProcStart
    /\ pc = "idle"
    /\ fault = Absent
    /\ args = [fetch |-> FALSE, maxChars |-> 2]
    /\ results = <<>>
    /\ urls = <<>>
    /\ lookup = <<>>
    /\ licenseMap = [u \in ResultUrls |-> NoLicense]
    /\ idx = 1
    /\ engine = <<>>
    /\ pending = NotFetched
    /\ fetchedByUrl = [u \in ResultUrls |-> NotFetched]
    /\ hits = <<>>
    /\ batch = NoBatch
    /\ logUsageCalls = 0
    /\ usagePosts = 0
    /\ usageLog = NoUsageLog
    /\ response = NoResponse

\* the server as configured by default: ENABLE_LICENSE_CACHE is off
Init == \E cfg \in Configs : ~cfg.enableCache /\ InitWith(cfg) /\ ledgerRecords = AnyRecords

\* the server with any configuration, the license cache switched on included
InitLedger == \E cfg \in Configs : InitWith(cfg) /\ ledgerRecords = AnyRecords

(***************************************************************************)
(* The clock.                                                              *)
(***************************************************************************)
Tick ==
    /\ now < MaxTime
    /\ now' = now + 1
    /\ UNCHANGED <<ledgerRecords, proc, config, licenseCache, pc, fault, args, results, urls, lookup, licenseMap,
                   idx, engine, pending, fetchedByUrl, hits, batch, logUsageCalls,
                   usagePosts, usageLog, response>>

(***************************************************************************)
(* CallToolRequestSchema handler, index.ts:124-216.                        *)
(***************************************************************************)
\* lines 125-151: argument checks, then the search request goes out
CallTool(name, query, fetch, maxChars) ==
    /\ pc \in {"idle", "done", "failed"}
    /\ IF name # "copyrightish-exa-search"
       THEN pc' = "failed" /\ fault' = "MethodNotFound"
       ELSE IF query = ""
       THEN pc' = "failed" /\ fault' = "InvalidParams"
       ELSE pc' = "searching" /\ fault' = Absent
    /\ args' = [fetch |-> fetch, maxChars |-> maxChars]
    /\ results' = <<>>
    /\ urls' = <<>>
    /\ lookup' = <<>>
    /\ licenseMap' = [u \in ResultUrls |-> NoLicense]
    /\ idx' = 1
    /\ engine' = <<>>
    /\ pending' = NotFetched
    /\ fetchedByUrl' = [u \in ResultUrls |-> NotFetched]
    /\ hits' = <<>>
    /\ batch' = NoBatch
    /\ logUsageCalls' = 0
    /\ usagePosts' = 0
    /\ usageLog' = NoUsageLog
    /\ response' = NoResponse
    /\ UNCHANGED <<ledgerRecords, proc, config, now, licenseCache>>

\* mutant: the rejection is caught and answered as a search without results
SearchFailsAnsweredEmpty ==
    /\ pc = "searching"
    /\ pc' = "done"
    /\ response' = [set |-> TRUE, results |-> <<>>, usage_log |-> usageLog]
    /\ UNCHANGED <<ledgerRecords, proc, config, now, licenseCache, fault, args, results, urls, lookup, licenseMap,
                   idx, engine, pending, fetchedByUrl, hits, batch, logUsageCalls,
                   usagePosts, usageLog>>

\* ExaClient.search rejects (unreachable, non-2xx): the handler has no catch
SearchFails ==
    /\ pc = "searching"
    /\ pc' = "failed"
    /\ fault' = "Request failed with status code 500"
    /\ UNCHANGED <<ledgerRecords, proc, config, now, licenseCache, args, results, urls, lookup, licenseMap,
                   idx, engine, pending, fetchedByUrl, hits, batch, logUsageCalls,
                   usagePosts, usageLog, response>>

\* results.map(r => r.url).filter(Boolean)
filterUrls(rs) == SelectSeq(rs, LAMBDA u : u # "")

\* mutant: the expiry of the entry is not compared with the clock
cacheHitIgnoringExpiry(cfg, cache, u, t) ==
    /\ cfg.enableCache
    /\ cache[u] # NoEntry

\* checkLicense up to its first await: lines 172-179 of the ledger service
cacheHit(cfg, cache, u, t) ==
    /\ cfg.enableCache
    /\ cache[u] # NoEntry
    /\ cache[u].expires > t

\* mutant: the tracking switch is not looked at
checkLicenseIgnoresTracking(cfg, cache, u, t) ==
    cacheHit(cfg, cache, u, t)

checkLicenseReturnsAtOnce(cfg, cache, u, t) ==
    ~cfg.enableTracking \/ cacheHit(cfg, cache, u, t)

checkLicenseAtOnce(cfg, cache, u, t) ==
    IF ~cfg.enableTracking THEN unknownLicense(u) ELSE cache[u].license

\* lines 153-163: the urls, and Promise.all(urls.map(...)) starts every checkLicense
startLookups(us) ==
    [i \in DOMAIN us |->
        IF checkLicenseReturnsAtOnce(config, licenseCache, us[i], now)
        THEN "returned" ELSE "inflight"]

SearchResponds(rs) ==
    /\ pc = "searching"
    /\ results' = rs
    /\ urls' = filterUrls(rs)
    /\ lookup' = startLookups(urls')
    /\ licenseMap' =
         [u \in ResultUrls |->
            IF u \in Range(urls') /\ checkLicenseReturnsAtOnce(config, licenseCache, u, now)
            THEN checkLicenseAtOnce(config, licenseCache, u, now)
            ELSE NoLicense]
    /\ pc' = "licenses"
    /\ UNCHANGED <<ledgerRecords, proc, config, now, licenseCache, fault, args, idx, engine, pending,
                   fetchedByUrl, hits, batch, logUsageCalls, usagePosts, usageLog, response>>

\* mutant: the verdict is stored whatever the lookup came to
cacheAfterAnyOutcome(cfg, cache, u, outcome, t) ==
    IF cfg.enableCache
    THEN [cache EXCEPT ![u] = [license |-> checkLicenseResult(u, outcome),
                               expires |-> t + CacheTTL]]
    ELSE cache

\* the cache write of checkLicense, lines 208-213 of the ledger service
cacheAfter(cfg, cache, u, outcome, t) ==
    IF cfg.enableCache /\ reachesCacheWrite(outcome)
    THEN [cache EXCEPT ![u] = [license |-> checkLicenseResult(u, outcome),
                               expires |-> t + CacheTTL]]
    ELSE cache

\* one pending GET /api/v1/licenses/ completes; licenseMap.set(u, lic)
LookupCompletes(i, outcome) ==
    /\ pc = "licenses"
    /\ i \in DOMAIN lookup
    /\ lookup[i] = "inflight"
    /\ lookup' = [lookup EXCEPT ![i] = IF lookupThrows(outcome) THEN "failed" ELSE "answered"]
    /\ IF checkLicenseRaises(outcome)
       THEN \* Promise.all rejects and the handler has no catch
            /\ pc' = "failed"
            /\ fault' = "license check failed"
            /\ UNCHANGED <<licenseCache, licenseMap>>
       ELSE /\ licenseCache' = cacheAfter(config, licenseCache, urls[i], outcome, now)
            /\ licenseMap' = [licenseMap EXCEPT ![urls[i]] = checkLicenseResult(urls[i], outcome)]
            /\ UNCHANGED <<pc, fault>>
    /\ UNCHANGED <<ledgerRecords, proc, config, now, args, results, urls, idx, engine, pending,
                   fetchedByUrl, hits, batch, logUsageCalls, usagePosts, usageLog, response>>

\* lines 200-211: enriched and responseBody
\* mutant: the verdict and the fetched record are taken by position in urls
enrichedByPosition(rs, lm, fbu) ==
    [i \in DOMAIN rs |->
        LET us == filterUrls(rs)
            u == IF i \in DOMAIN us THEN us[i] ELSE ""
        IN  [url |-> rs[i], license |-> lm[u], fetched |-> fbu[u]]]

enriched(rs, lm, fbu) ==
    [i \in DOMAIN rs |-> [url |-> rs[i], license |-> lm[rs[i]], fetched |-> fbu[rs[i]]]]

responseBody(rs, lm, fbu, ul) ==
    [set |-> TRUE, results |-> enriched(rs, lm, fbu), usage_log |-> ul]

\* mutant: the fetch loop is entered whether or not fetch was requested
LicensesDoneAlwaysFetches ==
    /\ pc = "licenses"
    /\ \A i \in DOMAIN lookup : lookup[i] # "inflight"
    /\ lookup' = [i \in DOMAIN lookup |-> "settled"]
    /\ pc' = "fetching"
    /\ engine' = [i \in DOMAIN urls |-> EngineStart]
    /\ response' = response
    /\ UNCHANGED <<ledgerRecords, proc, config, now, licenseCache, fault, args, results, urls, licenseMap,
                   idx, pending, fetchedByUrl, hits, batch, logUsageCalls, usagePosts,
                   usageLog>>

\* mutant: the fetch loop starts without awaiting Promise.all
LicensesDoneWithoutAwait ==
    /\ pc = "licenses"
    /\ lookup' = lookup
    /\ IF args.fetch
       THEN /\ pc' = "fetching"
            /\ engine' = [i \in DOMAIN urls |-> EngineStart]
            /\ response' = response
       ELSE /\ pc' = "done"
            /\ engine' = engine
            /\ response' = responseBody(results, licenseMap, fetchedByUrl, usageLog)
    /\ UNCHANGED <<ledgerRecords, proc, config, now, licenseCache, fault, args, results, urls, licenseMap,
                   idx, pending, fetchedByUrl, hits, batch, logUsageCalls, usagePosts,
                   usageLog>>

\* Promise.all resolved; line 168: if (fetch)
LicensesDone ==
    /\ pc = "licenses"
    /\ \A i \in DOMAIN lookup : lookup[i] # "inflight"
    /\ lookup' = [i \in DOMAIN lookup |-> "settled"]
    /\ IF args.fetch
       THEN /\ pc' = "fetching"
            /\ engine' = [i \in DOMAIN urls |-> EngineStart]
            /\ response' = response
       ELSE /\ pc' = "done"
            /\ engine' = engine
            /\ response' = responseBody(results, licenseMap, fetchedByUrl, usageLog)
    /\ UNCHANGED <<ledgerRecords, proc, config, now, licenseCache, fault, args, results, urls, licenseMap,
                   idx, pending, fetchedByUrl, hits, batch, logUsageCalls, usagePosts,
                   usageLog>>

(***************************************************************************)
(* The fetch loop, index.ts:168-186, and the engine runs it awaits.        *)
(***************************************************************************)
\* mutant: the calls are started together, as with Promise.all(urls.map(...))
loopStartsAll(i, position) == TRUE

\* for (const u of urls) { await licensedFetchText(u, ...) }: the call for position i is
\* made when the loop is at i, that is after the call for i - 1 has returned
loopReaches(i, position) == i = position

\* mutant: the status of the fetched record is not looked at
hitsAfterAnyStatus(hs, u, fetched, encoded) ==
    IF fetched.content_text # <<>>
    THEN LET t == estimate(fetched.content_text, encoded)
         IN  IF t > 0 THEN Append(hs, [url |-> u, tokens |-> t]) ELSE hs
    ELSE hs

\* lines 182-185: the hit of a fetched record, if any
hitsAfter(hs, u, fetched, encoded) ==
    IF fetched.content_text # <<>> /\ fetched.status >= 200 /\ fetched.status < 300
    THEN LET t == estimate(fetched.content_text, encoded)
         IN  IF t > 0 THEN Append(hs, [url |-> u, tokens |-> t]) ELSE hs
    ELSE hs

\* mutant: the loop is left at the first record that carries an error
fetchReturnsBreakOnError(i, fetched) ==
    /\ fetchedByUrl' = [fetchedByUrl EXCEPT ![urls[i]] = fetched]
    /\ \E encoded \in EncoderResults(fetched.content_text) :
         hits' = hitsAfter(hits, urls[i], fetched, encoded)
    /\ idx' = IF fetched.error # Absent THEN Len(urls) + 1 ELSE idx + 1
    /\ pending' = NotFetched

\* lines 180-185 and the next turn of the loop
fetchReturns(i, fetched) ==
    /\ fetchedByUrl' = [fetchedByUrl EXCEPT ![urls[i]] = fetched]
    /\ \E encoded \in EncoderResults(fetched.content_text) :
         hits' = hitsAfter(hits, urls[i], fetched, encoded)
    /\ idx' = idx + 1
    /\ pending' = NotFetched

\* START -> DIRECT_FETCH
FetchNext(i) ==
    /\ pc = "fetching"
    /\ i \in DOMAIN urls
    /\ engine[i].st = "START"
    /\ loopReaches(i, idx)
    /\ engine' = [engine EXCEPT ![i].st = "DIRECT_FETCH", ![i].gets = @ + 1]
    /\ UNCHANGED <<ledgerRecords, proc, config, now, licenseCache, pc, fault, args, results, urls, lookup,
                   licenseMap, idx, pending, fetchedByUrl, hits, batch, logUsageCalls,
                   usagePosts, usageLog, response>>

\* DIRECT_FETCH -> DONE | PAYMENT_REQUIRED -> ACQUIRING (-> ACQUIRE_FAILED -> DONE)
DirectResponds(i, resp) ==
    /\ pc = "fetching"
    /\ i \in DOMAIN urls
    /\ engine[i].st = "DIRECT_FETCH"
    /\ LET res == directResult(urls[i], resp, args.maxChars)
       IN  IF ~x402Signalled(resp)
           THEN /\ engine' = [engine EXCEPT ![i].st = "DONE", ![i].produced = @ + 1,
                                            ![i].first = resp]
                /\ fetchReturns(i, res)
           ELSE IF acquireThrowsWithoutKey(config)
           THEN /\ engine' = [engine EXCEPT ![i].st = "DONE", ![i].produced = @ + 1,
                                            ![i].first = resp, ![i].acquires = @ + 1,
                                            ![i].grant = "failed"]
                /\ fetchReturns(i, acquireFailedResult(acquiring(res), AcquireKeyMessage))
           ELSE /\ engine' = [engine EXCEPT ![i].st = "ACQUIRING", ![i].first = resp,
                                            ![i].acquires = @ + 1, ![i].posts = @ + 1]
                /\ pending' = acquiring(res)
                /\ UNCHANGED <<idx, fetchedByUrl, hits>>
    /\ UNCHANGED <<ledgerRecords, proc, config, now, licenseCache, pc, fault, args, results, urls, lookup,
                   licenseMap, batch, logUsageCalls, usagePosts, usageLog, response>>

\* mutant: after a failed acquisition the GET is issued once more
AcquireRespondsRetriesOnFailure(i, outcome) ==
    /\ pc = "fetching"
    /\ i \in DOMAIN urls
    /\ engine[i].st = "ACQUIRING"
    /\ engine' = [engine EXCEPT ![i].st = "RETRY_FETCH", ![i].gets = @ + 1,
                                ![i].grant = IF outcome.ok THEN "granted" ELSE "failed"]
    /\ pending' = [pending EXCEPT !.acquire = IF outcome.ok THEN outcome.licensed_url
                                              ELSE urls[i]]
    /\ UNCHANGED <<idx, fetchedByUrl, hits>>
    /\ UNCHANGED <<ledgerRecords, proc, config, now, licenseCache, pc, fault, args, results, urls, lookup,
                   licenseMap, batch, logUsageCalls, usagePosts, usageLog, response>>

\* ACQUIRING -> RETRY_FETCH | ACQUIRE_FAILED -> DONE
AcquireResponds(i, outcome) ==
    /\ pc = "fetching"
    /\ i \in DOMAIN urls
    /\ engine[i].st = "ACQUIRING"
    /\ IF outcome.ok
       THEN /\ engine' = [engine EXCEPT ![i].st = "RETRY_FETCH", ![i].gets = @ + 1,
                                        ![i].grant = "granted"]
            /\ pending' = [pending EXCEPT !.acquire = outcome.licensed_url]
            /\ UNCHANGED <<idx, fetchedByUrl, hits>>
       ELSE /\ engine' = [engine EXCEPT ![i].st = "DONE", ![i].produced = @ + 1,
                                        ![i].grant = "failed"]
            /\ fetchReturns(i, acquireFailedResult(pending, outcome.message))
    /\ UNCHANGED <<ledgerRecords, proc, config, now, licenseCache, pc, fault, args, results, urls, lookup,
                   licenseMap, batch, logUsageCalls, usagePosts, usageLog, response>>

\* RETRY_FETCH -> DONE
RetryResponds(i, resp) ==
    /\ pc = "fetching"
    /\ i \in DOMAIN urls
    /\ engine[i].st = "RETRY_FETCH"
    /\ engine' = [engine EXCEPT ![i].st = "DONE", ![i].produced = @ + 1,
                                ![i].retry = IF resp.ok THEN "ok" ELSE "error"]
    /\ fetchReturns(i, retryResult(pending, pending.acquire, resp, args.maxChars))
    /\ UNCHANGED <<ledgerRecords, proc, config, now, licenseCache, pc, fault, args, results, urls, lookup,
                   licenseMap, batch, logUsageCalls, usagePosts, usageLog, response>>

(***************************************************************************)
(* Usage logging, index.ts:188-197, and the response, index.ts:200-215.    *)
(***************************************************************************)
\* mutant: the usage log is sent whether or not there are hits
shouldLogUsageAlways(hs) == TRUE

\* if (hits.length > 0)
shouldLogUsage(hs) == Len(hs) > 0

usageLogOk(gen, hs) ==
    [set |-> TRUE, ok |-> TRUE, error |-> Absent, gen_id |-> gen, hits |-> Len(hs)]

\* mutant: the catch block reports success
usageLogFailedSwallowed(message, gen, hs) ==
    [set |-> TRUE, ok |-> TRUE, error |-> Absent, gen_id |-> gen, hits |-> Len(hs)]

usageLogFailed(message, gen, hs) ==
    [set |-> TRUE, ok |-> FALSE, error |-> message, gen_id |-> gen, hits |-> Len(hs)]

AfterFetchLoop ==
    /\ pc = "fetching"
    /\ idx > Len(urls)
    /\ IF ~shouldLogUsage(hits)
       THEN /\ pc' = "done"
            /\ response' = responseBody(results, licenseMap, fetchedByUrl, usageLog)
            /\ UNCHANGED <<batch, logUsageCalls, usagePosts, usageLog>>
       ELSE /\ logUsageCalls' = logUsageCalls + 1
            /\ batch' = [gen_id |-> GenId, hits |-> hits,
                         outcome |-> IF logUsageThrowsWithoutKey(config)
                                     THEN "failed" ELSE "sent"]
            /\ IF logUsageThrowsWithoutKey(config)
               THEN /\ usageLog' = usageLogFailed(UsageKeyMessage, GenId, hits)
                    /\ pc' = "done"
                    /\ response' = responseBody(results, licenseMap, fetchedByUrl, usageLog')
                    /\ UNCHANGED usagePosts
               ELSE /\ usagePosts' = usagePosts + 1
                    /\ pc' = "logging"
                    /\ UNCHANGED <<usageLog, response>>
    /\ UNCHANGED <<ledgerRecords, proc, config, now, licenseCache, fault, args, results, urls, lookup, licenseMap,
                   idx, engine, pending, fetchedByUrl, hits>>

LogUsageResponds(outcome) ==
    /\ pc = "logging"
    /\ batch' = [batch EXCEPT !.outcome = IF outcome.ok THEN "ok" ELSE "failed"]
    /\ usageLog' = IF outcome.ok THEN usageLogOk(batch.gen_id, hits)
                   ELSE usageLogFailed(outcome.message, batch.gen_id, hits)
    /\ pc' = "done"
    /\ response' = responseBody(results, licenseMap, fetchedByUrl, usageLog')
    /\ UNCHANGED <<ledgerRecords, proc, config, now, licenseCache, fault, args, results, urls, lookup, licenseMap,
                   idx, engine, pending, fetchedByUrl, hits, logUsageCalls, usagePosts>>

(***************************************************************************)
(* Termination signals, index.ts:72-79.                                    *)
(***************************************************************************)
Signals == {"SIGINT", "SIGTERM"}

\* mutant: process.exit(0) is called without awaiting server.close()
shutdownExitsAtOnce(p) ==
    [p EXCEPT !.calls = @ + 1, !.closing = @ + 1, !.st = "exited", !.code = 0,
              !.trace = @ \o <<"cleanup", "close", "exit">>]

\* lines 73-74: this.tokens.cleanup(), then server.close() is called and awaited
shutdown(p) ==
    [p EXCEPT !.calls = @ + 1, !.closing = @ + 1,
              !.trace = @ \o <<"cleanup", "close">>]

\* a signal is delivered: the listener of lines 78-79 runs up to its await.  Nothing
\* removes the listener, so a further signal runs it again
Signal(sig) ==
    /\ proc.st = "running"
    /\ proc.calls < MaxSignals
    /\ proc' = shutdown(proc)
    /\ UNCHANGED <<ledgerRecords, config, now, licenseCache, pc, fault, args, results, urls, lookup,
                   licenseMap, idx, engine, pending, fetchedByUrl, hits, batch,
                   logUsageCalls, usagePosts, usageLog, response>>

\* one server.close() call completes
CloseCompletes ==
    /\ proc.st = "running"
    /\ proc.closing > 0
    /\ proc' = [proc EXCEPT !.closing = @ - 1, !.resumable = @ + 1,
                            !.trace = Append(@, "closed")]
    /\ UNCHANGED <<ledgerRecords, config, now, licenseCache, pc, fault, args, results, urls, lookup,
                   licenseMap, idx, engine, pending, fetchedByUrl, hits, batch,
                   logUsageCalls, usagePosts, usageLog, response>>

\* line 75: the handler resumes after its await, process.exit(0)
ShutdownResumes ==
    /\ proc.st = "running"
    /\ proc.resumable > 0
    /\ proc' = [proc EXCEPT !.st = "exited", !.code = 0, !.resumable = @ - 1,
                            !.trace = Append(@, "exit")]
    /\ UNCHANGED <<ledgerRecords, config, now, licenseCache, pc, fault, args, results, urls, lookup,
                   licenseMap, idx, engine, pending, fetchedByUrl, hits, batch,
                   logUsageCalls, usagePosts, usageLog, response>>

(***************************************************************************)
(* Specification.                                                          *)
(***************************************************************************)
\* the tool handler; the clock is left out, nothing reads it while the cache is off
Next ==
    \/ \E name \in {"copyrightish-exa-search", "other-tool"}, query \in {"", "q"},
          fetch \in BOOLEAN, maxChars \in MaxCharsValues :
          CallTool(name, query, fetch, maxChars)
    \/ SearchFails
    \/ \E rs \in ResultLists : SearchResponds(rs)
    \/ \E i \in DOMAIN urls, outcome \in LookupOutcomesBrief : LookupCompletes(i, outcome)
    \/ LicensesDone
    \/ \E i \in DOMAIN urls : FetchNext(i)
    \/ \E i \in DOMAIN urls, resp \in DirectResponses : DirectResponds(i, resp)
    \/ \E i \in DOMAIN urls : \E outcome \in AcquireOutcomes(urls[i]) :
          AcquireResponds(i, outcome)
    \/ \E i \in DOMAIN urls, resp \in RetryResponses : RetryResponds(i, resp)
    \/ AfterFetchLoop
    \/ \E outcome \in UsageLogOutcomes : LogUsageResponds(outcome)

Spec == Init /\ [][Next]_vars

\* requests without content fetch, over time: the license lookups and their cache
NextLedger ==
    \/ Tick
    \/ \E maxChars \in MaxCharsValues : CallTool("copyrightish-exa-search", "q", FALSE, maxChars)
    \/ SearchFails
    \/ \E rs \in ResultLists : SearchResponds(rs)
    \/ \E i \in DOMAIN urls, outcome \in LookupOutcomes : LookupCompletes(i, outcome)
    \/ LicensesDone

SpecLedger == InitLedger /\ [][NextLedger]_vars

\* a process that receives termination signals while it serves requests without content
\* fetch; a handler runs only while the process lives.  The event loop runs a continuation
\* whose await has completed
InitShutdown ==
    \E cfg \in Configs :
        cfg.enableTracking /\ ~cfg.enableCache /\ InitWith(cfg) /\ ledgerRecords = AnyRecords

NextShutdown ==
    \/ \E sig \in Signals : Signal(sig)
    \/ CloseCompletes
    \/ ShutdownResumes
    \/ /\ proc.st = "running"
       /\ \/ \E maxChars \in MaxCharsValues :
                CallTool("copyrightish-exa-search", "q", FALSE, maxChars)
          \/ SearchFails
          \/ \E rs \in ResultLists : SearchResponds(rs)
          \/ \E i \in DOMAIN urls, outcome \in LookupOutcomesBrief : LookupCompletes(i, outcome)
          \/ LicensesDone

SpecShutdown ==
    /\ InitShutdown
    /\ [][NextShutdown]_vars
    /\ WF_vars(CloseCompletes)
    /\ WF_vars(ShutdownResumes)

\* requests without content fetch against a ledger whose records are fixed at the start:
\* every lookup is answered with these records
InitRecords ==
    \E cfg \in Configs, body \in FixedRecords :
        /\ cfg.enableTracking /\ cfg.apiKey
        /\ InitWith(cfg)
        /\ ledgerRecords = body

NextRecords ==
    \/ \E maxChars \in MaxCharsValues : CallTool("copyrightish-exa-search", "q", FALSE, maxChars)
    \/ \E rs \in ResultLists : SearchResponds(rs)
    \/ \E i \in DOMAIN urls : LookupCompletes(i, answered(ledgerRecords))
    \/ LicensesDone

SpecRecords == InitRecords /\ [][NextRecords]_vars

(***************************************************************************)
(* Properties.                                                             *)
(***************************************************************************)
isX402(resp) == resp.ok /\ resp.status = 402 /\ resp.scheme = "x402"

\* the record the engine returned last: the handler stored it under its url (line 180)
lastReturned == fetchedByUrl[urls[idx - 1]]

\* C1: every licensedFetchText call that has returned produced exactly one Licensed Fetch
\* Result, a call that has not returned produced none, and the result's payment_attempted
\* is true exactly when the first response was a 402 that declared the x402 scheme.
C1_OneResultPerFetch ==
    \A i \in DOMAIN engine :
        /\ engine[i].produced = (IF engine[i].st = "DONE" THEN 1 ELSE 0)
        /\ (i < idx) = (engine[i].st = "DONE")
        /\ i = idx - 1 =>
             /\ lastReturned.requested_url = urls[i]
             /\ lastReturned.payment_attempted = isX402(engine[i].first)

\* a paid success: 402 with x402, acquisition granted, retried body delivered
C1_Witness ==
    /\ idx - 1 \in DOMAIN engine
    /\ engine[idx - 1].st = "DONE"
    /\ isX402(engine[idx - 1].first)
    /\ lastReturned.payment_attempted
    /\ lastReturned.status = 200
    /\ lastReturned.acquire # Absent

\* C2: when the first response is a 402 with x402 and the acquisition fails (no credential
\* included), the engine is DONE, has issued the one direct GET only, and the result has an
\* error and the status and (truncated) body of the original 402 response.
C2_AcquireFailureKeeps402 ==
    \A i \in DOMAIN engine :
        /\ (engine[i].st = "DONE" /\ isX402(engine[i].first) /\ ~config.apiKey)
              => engine[i].grant = "failed"
        /\ engine[i].grant = "failed" =>
              /\ engine[i].st = "DONE"
              /\ engine[i].gets = 1
              /\ i = idx - 1 =>
                   /\ lastReturned.error # Absent
                   /\ lastReturned.status = engine[i].first.status
                   /\ lastReturned.content_text = truncate(engine[i].first.body, args.maxChars)
                   /\ lastReturned.content_text # <<>>
                   /\ lastReturned.final_url = urls[i]
                   /\ lastReturned.acquire = Absent

\* the no-credential scenario: 402 with x402, configuration error, 402 body kept
C2_Witness ==
    /\ idx - 1 \in DOMAIN engine
    /\ engine[idx - 1].grant = "failed"
    /\ lastReturned.error = AcquireKeyMessage
    /\ lastReturned.payment_attempted
    /\ lastReturned.status = 402
    /\ lastReturned.content_text = <<"p", "w">>

\* the degraded verdict of checkLicense for url u
isDegraded(v, u) ==
    /\ v.url = u
    /\ ~v.license_found
    /\ v.action = "unknown"
    /\ v.error # Absent

\* C3: checkLicense never raises: whenever a ledger lookup ends, however it ends, the
\* handler goes on, a verdict for the url is there, and when the call or the reading of
\* its data threw, the verdict is found=false, action=unknown with an error message.
C3_CheckLicenseNeverRaises ==
    [][\A i \in DOMAIN lookup :
          (lookup[i] = "inflight" /\ i \in DOMAIN lookup' /\ lookup'[i] # "inflight") =>
             /\ pc' = "licenses"
             /\ fault' = Absent
             /\ lookup'[i] \in {"answered", "failed"}
             /\ licenseMap'[urls[i]].url = urls[i]
             /\ lookup'[i] = "failed" => isDegraded(licenseMap'[urls[i]], urls[i])]_vars

\* a lookup whose answer could not be read: degraded verdict with the TypeError message
C3_Witness ==
    /\ pc = "licenses"
    /\ \E i \in DOMAIN lookup :
          /\ lookup[i] = "failed"
          /\ licenseMap[urls[i]] = degradedLicense(urls[i], TypeErrorMessage)

\* whether a checkLicense call for u at time t finds a fresh cache entry
freshEntry(u, t) ==
    /\ config.enableCache
    /\ licenseCache[u] # NoEntry
    /\ licenseCache[u].expires > t

\* C4 as stated: with the cache on, calls for the same url that overlap in time cause one
\* ledger lookup only (two lookups for one url are never in flight together).
C4_Original ==
    (config.enableCache /\ config.enableTracking) =>
        \A i, j \in DOMAIN lookup :
            (i < j /\ urls[i] = urls[j]) => ~(lookup[i] = "inflight" /\ lookup[j] = "inflight")

\* C4 as amended: with the cache on, a checkLicense call made while a non-expired entry
\* for its url exists returns that entry's verdict without a ledger lookup and leaves the
\* cache alone; a call made when there is no entry or the entry has expired makes exactly
\* one lookup, also when another call for the same url is already in flight.
C4_CachedVerdictReused ==
    [][(pc = "searching" /\ pc' = "licenses" /\ config.enableTracking) =>
          /\ licenseCache' = licenseCache
          /\ \A i \in DOMAIN urls' :
                /\ freshEntry(urls'[i], now) =>
                      /\ lookup'[i] = "returned"
                      /\ licenseMap'[urls'[i]] = licenseCache[urls'[i]].license
                /\ ~freshEntry(urls'[i], now) => lookup'[i] = "inflight"]_vars

\* one url answered from the cache while another one needs a lookup
C4_Witness ==
    /\ pc = "licenses"
    /\ config.enableCache
    /\ config.enableTracking
    /\ \E i, j \in DOMAIN lookup :
          /\ lookup[i] = "returned"
          /\ licenseMap[urls[i]] = licenseCache[urls[i]].license
          /\ licenseMap[urls[i]].license_found
          /\ lookup[j] = "inflight"

is2xx(st) == st >= 200 /\ st < 300

\* C5: the hits are only ever extended by a hit with tokens > 0 for the url just fetched,
\* whose fetched record has a status in [200,300) and non-empty content; all hits have
\* tokens > 0; and the batch handed to logUsage is exactly these hits.
C5_HitsAreSuccessfulFetches ==
    [][/\ \A k \in DOMAIN hits' : hits'[k].tokens > 0
       /\ \A k \in DOMAIN batch'.hits : batch'.hits[k].tokens > 0
       /\ (batch' # batch /\ batch.outcome = "none" /\ batch'.outcome # "none")
             => batch'.hits = hits
       /\ hits' # hits =>
             \/ hits' = <<>>
             \/ /\ Len(hits') = Len(hits) + 1
                /\ SubSeq(hits', 1, Len(hits)) = hits
                /\ LET h == hits'[Len(hits')]
                       r == fetchedByUrl'[h.url]
                   IN  /\ h.url = urls[idx]
                       /\ r.requested_url = h.url
                       /\ is2xx(r.status)
                       /\ r.content_text # <<>>]_vars

\* a batch was handed over that leaves out a url whose 402 body was not empty
C5_Witness ==
    /\ batch.outcome # "none"
    /\ Len(batch.hits) = 1
    /\ \E u \in Range(urls) :
          /\ fetchedByUrl[u].status = 402
          /\ fetchedByUrl[u].content_text # <<>>
          /\ \A k \in DOMAIN batch.hits : batch.hits[k].url # u

\* C6: per request logUsage is called at most once; when it is called, every fetch has
\* returned and the batch holds all hits of the request under one generation id; a
\* finished search-with-fetch request has called it exactly when it collected a hit; a
\* failed call is not followed by another one.
C6_OneUsageLogPerRequest ==
    /\ logUsageCalls <= 1
    /\ usagePosts <= logUsageCalls
    /\ logUsageCalls = 0 => batch = NoBatch
    /\ logUsageCalls = 1 =>
          /\ idx > Len(urls)
          /\ \A i \in DOMAIN engine : engine[i].st = "DONE"
          /\ hits # <<>>
          /\ batch.hits = hits
          /\ batch.gen_id = GenId
    /\ pc = "done" => (logUsageCalls = 1) = (args.fetch /\ hits # <<>>)

\* the one POST failed and the request is finished: no second call
C6_Witness ==
    /\ pc = "done"
    /\ batch.outcome = "failed"
    /\ logUsageCalls = 1
    /\ usagePosts = 1
    /\ Len(batch.hits) = 2

\* C7: when the logUsage call failed, the invocation is finished without a fault, the
\* response holds every search result with its license and fetched record, and its
\* usage_log has ok=false and the error message; logUsage was called once.
C7_UsageLogFailureReported ==
    batch.outcome = "failed" =>
        /\ pc = "done"
        /\ fault = Absent
        /\ response.set
        /\ Len(response.results) = Len(results)
        /\ \A k \in DOMAIN results :
              /\ response.results[k].url = results[k]
              /\ response.results[k].license = licenseMap[results[k]]
              /\ response.results[k].fetched = fetchedByUrl[results[k]]
              /\ results[k] # "" =>
                    /\ response.results[k].license.url = results[k]
                    /\ response.results[k].fetched.requested_url = results[k]
        /\ response.usage_log.set
        /\ ~response.usage_log.ok
        /\ response.usage_log.error
              \in {UsageKeyMessage} \cup {o.message : o \in {x \in UsageLogOutcomes : ~x.ok}}
        /\ response.usage_log.hits = Len(hits)
        /\ logUsageCalls = 1
        /\ usagePosts <= 1

\* no ledger credential: the configuration error is in the response, with both results
C7_Witness ==
    /\ batch.outcome = "failed"
    /\ response.usage_log.error = UsageKeyMessage
    /\ Len(response.results) = 2

\* a transport error of the direct or the retry GET, or a failed acquisition
engineFailed(e) == ~e.first.ok \/ e.grant = "failed" \/ e.retry = "error"

\* the last position of url u in urls
lastFetchOf(u) == CHOOSE i \in DOMAIN urls : urls[i] = u /\ \A j \in DOMAIN urls : urls[j] = u => j <= i

\* C8: a failure inside an engine run does not fail the invocation: the run returns a
\* record with an error, the loop goes on to the remaining urls, and the response has one
\* result per search result, where a result whose url's (last) fetch failed carries a
\* fetched record with an error.
C8_FetchFailureContained ==
    /\ pc = "failed" => engine = <<>>
    /\ \A i \in DOMAIN engine :
          (i = idx - 1 /\ engine[i].st = "DONE" /\ engineFailed(engine[i]))
             => lastReturned.error # Absent
    /\ (pc = "done" /\ args.fetch) =>
          /\ response.set
          /\ Len(response.results) = Len(results)
          /\ \A i \in DOMAIN engine : engine[i].st = "DONE"
          /\ \A k \in DOMAIN results :
                results[k] # "" =>
                   /\ response.results[k].fetched.requested_url = results[k]
                   /\ engineFailed(engine[lastFetchOf(results[k])])
                         => response.results[k].fetched.error # Absent

\* the first url's direct GET timed out, the second url was still fetched
C8_Witness ==
    /\ pc = "done"
    /\ Len(engine) = 2
    /\ ~engine[1].first.ok
    /\ response.results[1].fetched.error # Absent
    /\ response.results[2].fetched.status = 200
    /\ response.results[2].fetched.error = Absent

inFlight(e) == e.st \in {"DIRECT_FETCH", "ACQUIRING", "RETRY_FETCH"}

\* C9: within a request at most one engine run is in flight and at most one acquisition
\* call; a run has started only if all runs for earlier urls have returned.
C9_FetchesSequential ==
    /\ Cardinality({i \in DOMAIN engine : inFlight(engine[i])}) <= 1
    /\ Cardinality({i \in DOMAIN engine : engine[i].st = "ACQUIRING"}) <= 1
    /\ \A i \in DOMAIN engine :
          engine[i].st # "START" => \A j \in 1..(i - 1) : engine[j].st = "DONE"

\* the second url's acquisition is in flight after the first url's paid fetch returned
C9_Witness ==
    /\ Len(engine) = 2
    /\ engine[1].st = "DONE"
    /\ engine[1].grant = "granted"
    /\ engine[2].st = "ACQUIRING"

\* every lookup of url u in this request that has ended, ended in failure
onlyFailedLookups(u) ==
    /\ \E i \in DOMAIN lookup : urls[i] = u /\ lookup[i] = "failed"
    /\ \A i \in DOMAIN lookup : urls[i] = u => lookup[i] \in {"failed", "inflight"}

\* what holds of the verdicts while the lookups run and in the response
verdictsIsolated ==
    /\ pc = "failed" => lookup = <<>>
    /\ pc = "licenses" =>
          \A u \in Range(urls) :
             /\ onlyFailedLookups(u) => isDegraded(licenseMap[u], u)
             /\ (\A i \in DOMAIN lookup : urls[i] = u => lookup[i] = "answered")
                   => (licenseMap[u].url = u /\ licenseMap[u].error = Absent)
    /\ pc = "done" =>
          /\ Len(response.results) = Len(results)
          /\ \A k \in DOMAIN results :
                /\ response.results[k].license = licenseMap[results[k]]
                /\ results[k] # "" => response.results[k].license.url = results[k]

\* C10: a failed lookup stores the degraded verdict for its url and touches no other
\* lookup; a url whose lookups failed has the verdict {found:false, action:unknown,
\* error}, the urls whose lookups were answered have their own verdicts without error,
\* the request is never failed by a lookup, and the response reports these verdicts.
C10_FailedLookupIsolated ==
    /\ []verdictsIsolated
    /\ [][\A i \in DOMAIN lookup :
             (lookup[i] = "inflight" /\ i \in DOMAIN lookup' /\ lookup'[i] = "failed") =>
                /\ isDegraded(licenseMap'[urls[i]], urls[i])
                /\ \A j \in DOMAIN lookup : j # i => lookup'[j] = lookup[j]
                /\ \A u \in Urls : u # urls[i] => licenseMap'[u] = licenseMap[u]]_vars

\* one url's lookup timed out, the other url is reported as licensed
C10_Witness ==
    /\ pc = "done"
    /\ Len(response.results) = 2
    /\ response.results[1].license.error = "timeout of 5000ms exceeded"
    /\ response.results[2].license.license_found
    /\ response.results[2].license.action = "allow"

\* C11: for a request with fetch = false no fetch-engine run, no acquisition and no
\* usage-log call is made, and the response lists every search result, each result that
\* has a url with the license verdict of that url, none with a fetched record, and has no
\* usage_log.
C11_SearchOnlyResponse ==
    ~args.fetch =>
        /\ engine = <<>>
        /\ hits = <<>>
        /\ batch = NoBatch
        /\ logUsageCalls = 0
        /\ usagePosts = 0
        /\ pc \notin {"fetching", "logging"}
        /\ pc = "done" =>
              /\ response.set
              /\ response.usage_log = NoUsageLog
              /\ Len(response.results) = Len(results)
              /\ \A k \in DOMAIN results :
                    /\ response.results[k].url = results[k]
                    /\ response.results[k].fetched = NotFetched
                    /\ results[k] # "" =>
                          /\ response.results[k].license # NoLicense
                          /\ response.results[k].license.url = results[k]

\* a search-only request answered with two results, one of them licensed
C11_Witness ==
    /\ pc = "done"
    /\ ~args.fetch
    /\ Len(response.results) = 2
    /\ response.results[1].url # response.results[2].url
    /\ \A k \in 1..2 : response.results[k].url # ""
    /\ response.results[1].license.license_found
    /\ response.results[2].license.error # Absent

\* what holds of the ledger calls of a request while no API key is configured
noPostWithoutKey ==
    ~config.apiKey =>
        /\ \A i \in DOMAIN engine :
              /\ engine[i].posts = 0
              /\ engine[i].grant # "granted"
              /\ engine[i].acquires > 0 => (engine[i].st = "DONE" /\ engine[i].grant = "failed")
              /\ (i = idx - 1 /\ engine[i].acquires > 0) =>
                    lastReturned.error = AcquireKeyMessage
        /\ usagePosts = 0
        /\ pc # "logging"
        /\ logUsageCalls > 0 =>
              /\ batch.outcome = "failed"
              /\ usageLog.set /\ ~usageLog.ok
              /\ usageLog.error = UsageKeyMessage

\* C12: without an API key acquireLicenseToken and logUsage fail with their configuration
\* error and no POST is sent to the ledger, while checkLicense (tracking on, nothing
\* cached) still sends its GET for every url.
C12_NoKeyNoPost ==
    /\ []noPostWithoutKey
    /\ [][(~config.apiKey /\ config.enableTracking /\ pc = "searching" /\ pc' = "licenses")
             => \A i \in DOMAIN lookup' : lookup'[i] = "inflight"]_vars

\* no key: a lookup was answered, an acquisition and the usage log failed on the key
C12_Witness ==
    /\ ~config.apiKey
    /\ pc = "done"
    /\ \E u \in Urls : licenseMap[u].license_found
    /\ \E i \in DOMAIN engine : engine[i].acquires = 1 /\ engine[i].posts = 0
    /\ logUsageCalls = 1
    /\ usageLog.error = UsageKeyMessage
    /\ \E k \in DOMAIN response.results :
          response.results[k].fetched.error = AcquireKeyMessage

\* the cache as it would be with a live entry for url u
withLiveEntry(cache, u, t) ==
    [cache EXCEPT ![u] = [license |-> licenseFrom(u, LicenseRecord("ai-license", "opt-in", 2)),
                          expires |-> t + 1]]

\* C13: with tracking disabled every checkLicense call returns at once, no GET is sent to
\* the ledger, the verdict of every url is {license_found:false, action:unknown} without
\* an error whatever the cache holds, and the cache is never written.
C13_TrackingOffNoLookup ==
    ~config.enableTracking =>
        /\ \A i \in DOMAIN lookup : lookup[i] \in {"returned", "settled"}
        /\ licenseCache = [u \in Urls |-> NoEntry]
        /\ \A u \in Urls :
              /\ checkLicenseReturnsAtOnce(config, withLiveEntry(licenseCache, u, now), u, now)
              /\ checkLicenseAtOnce(config, withLiveEntry(licenseCache, u, now), u, now)
                    = unknownLicense(u)
        /\ pc \in {"licenses", "done"} =>
              \A u \in Range(urls) : licenseMap[u] = unknownLicense(u)
        /\ pc = "done" =>
              \A k \in DOMAIN results :
                 results[k] # "" => response.results[k].license = unknownLicense(results[k])

\* tracking off, caching on: two urls answered as unknown
C13_Witness ==
    /\ ~config.enableTracking
    /\ config.enableCache
    /\ pc = "done"
    /\ Len(response.results) = 2
    /\ response.results[1].url = "u1"
    /\ response.results[2].url = "u2"
    /\ response.results[2].license = unknownLicense("u2")

\* the request failed on its search call and nothing was done for it
failedOnSearch ==
    (pc = "failed" /\ fault = "Request failed with status code 500") =>
        /\ results = <<>> /\ urls = <<>>
        /\ lookup = <<>>
        /\ \A u \in ResultUrls : licenseMap[u] = NoLicense
        /\ engine = <<>>
        /\ hits = <<>>
        /\ batch = NoBatch
        /\ logUsageCalls = 0
        /\ usagePosts = 0
        /\ ~response.set

\* C14: when the search call is rejected the tool invocation fails with that error and
\* produces no response; no license lookup, no fetch-engine run, no acquisition and no
\* usage-log call is made for the request.  The search call ends either so or with the
\* results the license lookups start from.
C14_SearchFailureIsHard ==
    /\ []failedOnSearch
    /\ [][(pc = "searching" /\ pc' # "searching") =>
             \/ pc' = "licenses" /\ fault' = Absent
             \/ /\ pc' = "failed"
                /\ fault' # Absent
                /\ ~response'.set
                /\ UNCHANGED <<licenseCache, lookup, licenseMap, engine, batch,
                               logUsageCalls, usagePosts>>]_vars

\* a request with fetch = true whose search call was rejected
C14_Witness ==
    /\ pc = "failed"
    /\ fault = "Request failed with status code 500"
    /\ args.fetch
    /\ lookup = <<>>
    /\ engine = <<>>

\* the number of events e among the first k of trace t
RECURSIVE countOf(_, _, _)
countOf(t, e, k) ==
    IF k = 0 THEN 0 ELSE countOf(t, e, k - 1) + (IF t[k] = e THEN 1 ELSE 0)

\* the order of the shutdown steps
orderlyShutdown ==
    LET t == proc.trace
    IN  /\ \A k \in DOMAIN t :
              /\ t[k] = "close" => (k > 1 /\ t[k - 1] = "cleanup")
              /\ t[k] = "closed" => countOf(t, "closed", k) <= countOf(t, "close", k)
              /\ t[k] = "exit" => (k = Len(t) /\ countOf(t, "closed", k) > 0)
        /\ proc.st = "exited" <=> (t # <<>> /\ t[Len(t)] = "exit")
        /\ proc.st = "exited" => proc.code = 0
        /\ proc.calls = 0 => (t = <<>> /\ proc.st = "running")

\* C15: a termination signal runs the shutdown handler: the token estimator is released,
\* then server.close() is called, and process.exit(0) is called only after a close has
\* completed; after the exit no request makes a step.  Once a signal has been received
\* the process eventually exits, whatever its requests are doing.
C15_OrderlyShutdown ==
    /\ []orderlyShutdown
    /\ [][proc.st = "exited" => UNCHANGED vars]_vars
    /\ (proc.calls > 0) ~> (proc.st = "exited")

\* the process has exited after two signals while a license lookup was in flight
C15_Witness ==
    /\ proc.st = "exited"
    /\ proc.calls = 2
    /\ pc = "licenses"
    /\ \E i \in DOMAIN lookup : lookup[i] = "inflight"

\* the steps of one engine run; PAYMENT_REQUIRED and ACQUIRE_FAILED are passed through
\* within the step that enters them
EngineSteps ==
    {<<"START", "DIRECT_FETCH">>, <<"DIRECT_FETCH", "DONE">>, <<"DIRECT_FETCH", "ACQUIRING">>,
     <<"ACQUIRING", "RETRY_FETCH">>, <<"ACQUIRING", "DONE">>, <<"RETRY_FETCH", "DONE">>}

\* what holds of every engine run of the request
engineRunsInOrder ==
    \A i \in DOMAIN engine :
        LET e == engine[i]
        IN  /\ e.acquires <= 1 /\ e.posts <= e.acquires
            /\ e.gets <= 2
            /\ e.st = "START" <=> e.gets = 0
            /\ e.acquires = 1 <=> (e.st # "DIRECT_FETCH" /\ isX402(e.first))
            /\ e.st = "ACQUIRING" <=> (e.acquires = 1 /\ e.grant = "none")
            /\ e.gets = 2 <=> e.grant = "granted"
            /\ e.st = "RETRY_FETCH" <=> (e.grant = "granted" /\ e.retry = "none")
            /\ e.st = "RETRY_FETCH" => pending.acquire = LicensedUrl(urls[i])
            /\ (e.st = "RETRY_FETCH" /\ pending.acquire # Absent) =>
                  \A j \in DOMAIN urls : pending.acquire = LicensedUrl(urls[j]) => urls[j] = urls[i]
            /\ (e.st = "DONE" /\ i = idx - 1) =>
                  /\ lastReturned.payment_required = isX402(e.first)
                  /\ lastReturned.final_url =
                        (IF e.grant = "granted" THEN LicensedUrl(urls[i]) ELSE urls[i])
                  /\ (e.first.ok /\ e.first.status = 402 /\ ~isX402(e.first)) =>
                        /\ e.acquires = 0 /\ e.gets = 1
                        /\ ~lastReturned.payment_attempted
                        /\ lastReturned.status = 402

\* C16: every engine run goes START -> DIRECT_FETCH -> {DONE | ACQUIRING -> {RETRY_FETCH ->
\* DONE | DONE}}; the acquisition client is called at most once, and only on a first
\* response with status 402 and the x402 scheme (a 402 without it ends the run with
\* payment_required = false and no acquisition); the second GET is issued at most once,
\* only after a granted acquisition of this run and to the licensed_url granted for this
\* run's url.
C16_EngineStateMachine ==
    /\ []engineRunsInOrder
    /\ [][\A i \in DOMAIN engine :
             (i \in DOMAIN engine' /\ engine'[i].st # engine[i].st) =>
                <<engine[i].st, engine'[i].st>> \in EngineSteps]_vars

\* the same url twice: the first run was granted and retried, the second is retrying on
\* a grant of its own
C16_Witness ==
    /\ Len(engine) = 2
    /\ urls[1] = urls[2]
    /\ engine[1].st = "DONE" /\ engine[1].grant = "granted" /\ engine[1].gets = 2
    /\ engine[2].st = "RETRY_FETCH" /\ engine[2].acquires = 1 /\ engine[2].posts = 1

\* C17: within a request every license lookup has completed before the first engine run
\* starts; logUsage is called only after the last engine run has returned; the response
\* is built only after the lookups, the engine runs and the logUsage call, if one was
\* made, have ended.
C17_PhasesInOrder ==
    /\ engine # <<>> =>
          /\ Len(engine) = Len(urls)
          /\ \A j \in DOMAIN lookup : lookup[j] = "settled"
    /\ \A j \in DOMAIN lookup : lookup[j] = "inflight" => pc \in {"licenses", "failed"}
    /\ logUsageCalls > 0 =>
          /\ args.fetch
          /\ idx = Len(urls) + 1
          /\ \A i \in DOMAIN engine : engine[i].st = "DONE"
          /\ batch.outcome # "none"
    /\ pc = "logging" <=> batch.outcome = "sent"
    /\ pc = "logging" => ~response.set
    /\ response.set <=> pc = "done"
    /\ response.set =>
          /\ \A j \in DOMAIN lookup : lookup[j] = "settled"
          /\ \A i \in DOMAIN engine : engine[i].st = "DONE"
          /\ args.fetch => Len(engine) = Len(urls)
          /\ batch.outcome \in {"none", "ok", "failed"}
          /\ batch.outcome = "none" <=> hits = <<>>
          /\ batch.outcome # "none" => (usageLog.set /\ response.usage_log = usageLog)

\* a response after two lookups, two engine runs and a usage log that the ledger refused
C17_Witness ==
    /\ response.set
    /\ Len(lookup) = 2
    /\ Len(engine) = 2
    /\ engine[1].gets = 2
    /\ batch.outcome = "failed"
    /\ usagePosts = 1

\* the response lists the upstream results in their order, each with what is kept under
\* its own url
mergedByUrl ==
    pc = "done" =>
        /\ Len(response.results) = Len(results)
        /\ \A k \in DOMAIN results :
              LET r == response.results[k]
              IN  /\ r.url = results[k]
                  /\ results[k] # "" =>
                        /\ r.license.url = results[k]
                        /\ r.license = licenseMap[results[k]]
                        /\ args.fetch =>
                              /\ r.fetched.requested_url = results[k]
                              /\ r.fetched = fetchedByUrl[results[k]]
                  /\ results[k] = "" => (r.license = NoLicense /\ r.fetched = NotFetched)

\* C18: in whatever order the lookups complete, each completion stores the verdict of
\* its own url and leaves the result list alone, and the response has the upstream
\* results in the upstream order and number, the result of url u carrying the verdict
\* whose url is u and, when fetch was requested, the fetched record whose requested_url
\* is u.
C18_MergedByUrl ==
    /\ []mergedByUrl
    /\ [][\A i \in DOMAIN lookup :
             (lookup[i] = "inflight" /\ i \in DOMAIN lookup' /\ lookup'[i] # "inflight") =>
                /\ licenseMap'[urls[i]].url = urls[i]
                /\ results' = results /\ urls' = urls]_vars

\* upstream order u2, u1: the lookup of u2 failed and its fetch met a paywall, u1 is
\* licensed and was fetched
C18_Witness ==
    /\ pc = "done"
    /\ args.fetch
    /\ Len(results) = 2
    /\ results[1] = "u2" /\ results[2] = "u1"
    /\ response.results[1].license.url = "u2"
    /\ response.results[1].license.error # Absent
    /\ response.results[2].license.license_found
    /\ response.results[2].fetched.requested_url = "u1"
    /\ response.results[2].fetched.status = 200
    /\ response.results[1].fetched.status = 402

\* what every entry of the license cache looks like
cacheHoldsAnswers ==
    \A u \in Urls :
        licenseCache[u] # NoEntry =>
            /\ config.enableCache /\ config.enableTracking
            /\ licenseCache[u].license.url = u
            /\ licenseCache[u].license.error = Absent
            /\ licenseCache[u].license.license_version_id > 0
            /\ licenseCache[u].expires >= CacheTTL
            /\ licenseCache[u].expires <= now + CacheTTL

\* how the cache is written and read in one step
cacheStep ==
    /\ \A u \in Urls :
          licenseCache'[u] # licenseCache[u] =>
             /\ config.enableCache
             /\ \E i \in DOMAIN lookup :
                   /\ urls[i] = u
                   /\ lookup[i] = "inflight" /\ lookup'[i] = "answered"
             /\ licenseCache'[u].expires = now + CacheTTL
             /\ licenseCache'[u].license = licenseMap'[u]
             /\ licenseCache'[u].license.error = Absent
    /\ (\E i \in DOMAIN lookup :
           i \in DOMAIN lookup' /\ lookup[i] = "inflight" /\ lookup'[i] = "failed")
          => (licenseCache' = licenseCache /\ \E u \in Range(urls) : licenseMap'[u].error # Absent)
    /\ (pc = "searching" /\ pc' = "licenses" /\ config.enableTracking) =>
          \A i \in DOMAIN lookup' :
             lookup'[i] = "returned" =>
                /\ config.enableCache
                /\ licenseCache[urls'[i]] # NoEntry
                /\ licenseCache[urls'[i]].expires > now
                /\ licenseMap'[urls'[i]] = licenseCache[urls'[i]].license

\* C19: every cache entry was written by an answered ledger lookup with caching enabled:
\* its verdict has the url of its key and no error, and its expiry is the time of the
\* write plus the TTL; a failed lookup leaves the cache as it was and its degraded verdict
\* is not stored; a call returns a cached verdict only while the entry's expiry is ahead
\* of the clock.
C19_CacheHoldsAnswers ==
    /\ []cacheHoldsAnswers
    /\ [][cacheStep]_vars

\* the entry of u1 has expired and u1 is looked up again, while the failed lookup of u2
\* left no entry
C19_Witness ==
    /\ config.enableCache
    /\ pc = "licenses"
    /\ urls = <<"u1", "u2">>
    /\ licenseCache["u1"] # NoEntry
    /\ licenseCache["u1"].expires <= now
    /\ lookup[1] = "inflight"
    /\ lookup[2] = "failed"
    /\ licenseMap["u2"].error # Absent
    /\ licenseCache["u2"] = NoEntry

\* the number of results that have a url
RECURSIVE withUrl(_)
withUrl(rs) ==
    IF rs = <<>> THEN 0 ELSE (IF rs[1] # "" THEN 1 ELSE 0) + withUrl(Tail(rs))

\* C20: for every hit of the usage batch sent for a request, the fetched record that the
\* response reports for the hit's url has a status in [200,300) and a non-empty
\* content_text, also when a url occurs more than once among the results; and there is
\* one engine run, with one GET and at most one acquisition, per occurrence of a url.
C20_HitsMatchReportedRecords ==
    pc = "done" =>
        /\ usagePosts > 0 =>
           \A k \in DOMAIN batch.hits :
              \A j \in DOMAIN response.results :
                 response.results[j].url = batch.hits[k].url =>
                    /\ is2xx(response.results[j].fetched.status)
                    /\ response.results[j].fetched.content_text # <<>>
        /\ args.fetch =>
              /\ Len(engine) = withUrl(results)
              /\ \A i \in DOMAIN engine :
                    /\ engine[i].produced = 1
                    /\ engine[i].gets >= 1
                    /\ engine[i].acquires = (IF isX402(engine[i].first) THEN 1 ELSE 0)

\* the places of the records a verdict may be based on: those of the ai-license records
\* if there are any, else the first place
basisOf(data) ==
    LET ai == {j \in DOMAIN data : data[j].license_type = "ai-license"}
    IN  IF ai # {} THEN ai ELSE {1}

\* the verdict for url u that maps the opt_in_status of record rec
mapped(u, rec) ==
    [url |-> u,
     license_found |-> rec.opt_in_status \in {"opt-in", "opt-out"},
     action |-> CASE rec.opt_in_status = "opt-in" -> "allow"
                  [] rec.opt_in_status = "opt-out" -> "deny"
                  [] OTHER -> "unknown",
     license_version_id |-> rec.id,
     error |-> Absent]

\* C21: when the ledger answers a lookup with at least one record, the verdict stored
\* for the url and reported in the response maps the opt_in_status of an ai-license
\* record if there is one, else of the first record: opt-in gives allow, opt-out gives
\* deny, anything else gives unknown, and license_found is true exactly for opt-in and
\* opt-out.
C21_VerdictFromSelectedRecord ==
    Len(ledgerRecords.data) >= 1 =>
        /\ pc = "licenses" =>
              \A i \in DOMAIN lookup :
                 lookup[i] # "inflight" =>
                    \E j \in basisOf(ledgerRecords.data) :
                       licenseMap[urls[i]] = mapped(urls[i], ledgerRecords.data[j])
        /\ pc = "done" =>
              \A k \in DOMAIN results :
                 results[k] # "" =>
                    \E j \in basisOf(ledgerRecords.data) :
                       response.results[k].license = mapped(results[k], ledgerRecords.data[j])

\* the ledger holds a web record that opts out ahead of an ai-license record that opts
\* in: the response allows
C21_Witness ==
    /\ pc = "done"
    /\ Len(ledgerRecords.data) = 2
    /\ ledgerRecords.data[1] = LicenseRecord("web", "opt-out", 1)
    /\ ledgerRecords.data[2] = LicenseRecord("ai-license", "opt-in", 2)
    /\ Len(response.results) >= 1
    /\ response.results[1].url = "u1"
    /\ response.results[1].license.license_found
    /\ response.results[1].license.action = "allow"
    /\ response.results[1].license.license_version_id = 2

====
